---- MODULE Spec2Model ----
(***************************************************************************)
(* Model of the gtm "status" command, command/status.go: StatusCmd.Run.    *)
(*                                                                         *)
(* A run is one call of Run(args).  The collaborators Run calls            *)
(* (flag.Parse, project.NewIndex, Index.Get, metric.Process,               *)
(* report.Status) are the environment: whether each call succeeds and what *)
(* it returns is chosen nondeterministically.  Every write of Run to one   *)
(* of its three sinks (Ui.Error, Ui.Output, fmt.Print) is logged.          *)
(*                                                                         *)
(* A Go string is the sequence of its Unicode code points (97 is "a", 44   *)
(* the comma, 32 the blank): the tag string is valid UTF-8, on which the   *)
(* byte-wise strings.Split on "," and the rune-wise strings.TrimSpace cut  *)
(* at the same places.  A report text is a                                 *)
(* sequence of tokens; the token of a project is its number, 0 is the      *)
(* token of the help text.                                                 *)
(***************************************************************************)
EXTENDS Integers, Sequences, FiniteSets, TLC

(* ------------------------------- bounds -------------------------------- *)

\* SpecTags parses every tag string over TagAlphabet up to this length (and
\* the longer strings of LongTags); the runs of Spec take their tag strings
\* from RunTags
MaxTagLen == 5

\* number of registered projects; a ProjectSet is a sequence of distinct
\* projects of 1..MaxProjects
MaxProjects == 3

(* ------------------------------- strings ------------------------------- *)

\* the separator of status.go 96: ","
Comma == 44

\* the characters tag strings are made of: "a", "b", "c", the comma, and
\* three kinds of white space: the blank, the form feed (an ASCII white
\* space) and the no-break space U+00A0 (a white space outside ASCII)
TagAlphabet == {97, 98, 99, Comma, 32, 12, 160}

\* every string over TagAlphabet of length at most n
StringsUpTo(n) == UNION {[1..k -> TagAlphabet] : k \in 0..n}

\* tag strings longer than MaxTagLen that SpecTags parses too: "a, b ,c" and
\* "\va,\tb\u2003,c\r\n"
LongTags ==
    {<<97, Comma, 32, 98, 32, Comma, 99>>,
     <<11, 97, Comma, 9, 98, 8195, Comma, 99, 13, 10>>}

\* the tag strings of the runs of Spec: none, one tag, a lone comma, and two
\* tags with a blank ("a, b"); SpecTags covers the tag parsing in full
RunTags == {<<>>, <<97>>, <<Comma>>, <<97, Comma, 32, 98>>}

\* the white space strings.TrimSpace strips.  Below utf8.RuneSelf it is the
\* asciiSpace table: \t \n \v \f \r and the blank; above, unicode.IsSpace:
\* U+0085, U+00A0, U+1680, U+2000..U+200A, U+2028, U+2029, U+202F, U+205F,
\* U+3000
isSpace(ch) ==
    IF ch < 128
    THEN ch \in {9, 10, 11, 12, 13, 32}
    ELSE \/ ch \in {133, 160, 5760, 8232, 8233, 8239, 8287, 12288}
         \/ ch \in 8192..8202

\* strings.Index(s, sep) for a one-character sep: the first position of sep
\* in s (1-based), 0 when s does not contain it
Index(s, sep) ==
    IF \E i \in 1..Len(s) : s[i] = sep
    THEN CHOOSE i \in 1..Len(s) : s[i] = sep /\ \A j \in 1..(i-1) : s[j] # sep
    ELSE 0

\* strings.Split(s, sep): cut at every occurrence of sep; a string without
\* sep gives the one-element list <<s>>
RECURSIVE Split(_, _)
Split(s, sep) ==
    LET m == Index(s, sep) IN
    IF m = 0 THEN <<s>>
    ELSE <<SubSeq(s, 1, m - 1)>> \o Split(SubSeq(s, m + 1, Len(s)), sep)

RECURSIVE TrimLeft(_)
TrimLeft(s) == IF s # <<>> /\ isSpace(Head(s)) THEN TrimLeft(Tail(s)) ELSE s

RECURSIVE TrimRight(_)
TrimRight(s) ==
    IF s # <<>> /\ isSpace(s[Len(s)])
    THEN TrimRight(SubSeq(s, 1, Len(s) - 1)) ELSE s

\* a trim that forgets the trailing white space
TrimSpace_LeftOnly(s) == TrimLeft(s)

\* strings.TrimSpace(s): s without leading and trailing white space
TrimSpace(s) == TrimRight(TrimLeft(s))

\* util.Map(vs, strings.TrimSpace): every element trimmed, order kept
MapTrimSpace(vs) == [i \in 1..Len(vs) |-> TrimSpace(vs[i])]

\* a tag list that drops the segments that are empty after trimming
BuildTagList_DropEmpty(t) ==
    IF t # <<>>
    THEN SelectSeq(MapTrimSpace(Split(t, Comma)), LAMBDA e : e # <<>>)
    ELSE <<>>

\* status.go 94-97: tagList := []string{}; if tags != "" { tagList =
\* util.Map(strings.Split(tags, ","), strings.TrimSpace) }
BuildTagList(t) ==
    IF t # <<>> THEN MapTrimSpace(Split(t, Comma)) ELSE <<>>

(* -------------------------------- state -------------------------------- *)

VARIABLES
    pc,              \* the statement of Run that executes next
    color, terminalOff, applicationOff, totalOnly, all, profile, longDuration,
    tags,            \* the flag values (status.go 59-60)
    TimeTrackEnable, \* util.TimeTrackEnable, the process-wide profiling switch
    tagList,         \* status.go 94
    projects,        \* status.go 99
    options,         \* status.go 105
    n,               \* position of the range loop of status.go 112 in projects
    commitNote,      \* status.go 84: 0 is the zero note, p the note of project p
    out,             \* status.go 85
    exitCode,        \* the value Run returned, NoExit while it runs
    calls,           \* log: the collaborator calls made, with their outcome
    getCalls,        \* log: the arguments of every index.Get call
    fragments,       \* log: the text every successful report.Status returned
    uiError,         \* log: the messages given to c.Ui.Error
    uiOutput,        \* log: the texts given to c.Ui.Output
    stdout           \* log: the texts given to fmt.Print

flags == <<color, terminalOff, applicationOff, totalOnly, all, profile,
           longDuration, tags>>

logs == <<calls, getCalls, fragments, uiError, uiOutput, stdout>>

vars == <<pc, flags, TimeTrackEnable, tagList, projects, options, n,
          commitNote, out, exitCode, logs>>

\* Run has not returned
NoExit == -1

\* c.Help(), as a report text
HelpText == <<0>>

Projects == 1..MaxProjects

\* the sequences of distinct projects
ProjectSets ==
    {ps \in UNION {[1..k -> Projects] : k \in 0..MaxProjects} :
        \A i, j \in 1..Len(ps) : i # j => ps[i] # ps[j]}

\* report.OutputOptions{} before status.go 105 fills it
ZeroOptions ==
    [TotalOnly |-> FALSE, LongDuration |-> FALSE, TerminalOff |-> FALSE,
     ApplicationOff |-> FALSE, Color |-> FALSE]

Call(op, p, ok) == [op |-> op, proj |-> p, ok |-> ok]

(* --------------------------- the collaborators -------------------------- *)

\* project.Index.Get(tagList, all): an error, or the ProjectSet.  With all
\* unset and no tag the registry resolves the single project of the current
\* working context; otherwise any set of registered projects can match.
IndexGet(tl, a) ==
    {[ok |-> FALSE, projects |-> <<>>]} \cup
    {[ok |-> TRUE, projects |-> ps] :
        ps \in IF ~a /\ tl = <<>> THEN {s \in ProjectSets : Len(s) = 1}
               ELSE ProjectSets}

\* report.Status(commitNote, options, projPath): an error, or the text of
\* the project's fragment (which may be empty)
ReportStatus(note, opts, p) ==
    {[ok |-> FALSE, text |-> <<>>]} \cup
    {[ok |-> TRUE, text |-> t] : t \in {<<>>, <<p>>}}

(* -------------------------------- Init ---------------------------------- *)

\* everything but the flags and pc, as it is when Run is entered
Entered ==
    /\ TimeTrackEnable = FALSE
    /\ tagList = <<>>
    /\ projects = <<>>
    /\ options = ZeroOptions
    /\ n = 0
    /\ commitNote = 0
    /\ out = <<>>
    /\ exitCode = NoExit
    /\ calls = <<>>
    /\ getCalls = <<>>
    /\ fragments = <<>>
    /\ uiError = <<>>
    /\ uiOutput = <<>>
    /\ stdout = <<>>

Init ==
    /\ pc = "parse"
    /\ color \in BOOLEAN
    /\ terminalOff \in BOOLEAN
    /\ applicationOff \in BOOLEAN
    /\ totalOnly \in BOOLEAN
    /\ all \in BOOLEAN
    /\ profile \in BOOLEAN
    /\ longDuration \in BOOLEAN
    /\ tags \in RunTags
    /\ Entered

(* ------------------------------- actions -------------------------------- *)

\* return 1 after c.Ui.Error(msg)
Fail(msg) ==
    /\ uiError' = Append(uiError, msg)
    /\ exitCode' = 1
    /\ pc' = "done"

\* status.go 71-75: cmdFlags.Parse(args).  A parse error calls
\* cmdFlags.Usage, which gives the help text to c.Ui.Output, and returns 1.
\* Past the parse, status.go 74 sets util.TimeTrackEnable; what the deferred
\* util.TimeTrack of status.go 75 prints when Run returns lies outside this
\* file and is not part of the sinks logged here.
Parse ==
    /\ pc = "parse"
    /\ \E ok \in BOOLEAN :
        /\ calls' = Append(calls, Call("Parse", 0, ok))
        /\ IF ok
           THEN /\ TimeTrackEnable' = profile
                /\ pc' = "validate"
                /\ UNCHANGED <<uiOutput, exitCode>>
           ELSE /\ uiOutput' = Append(uiOutput, HelpText)
                /\ exitCode' = 1
                /\ pc' = "done"
                /\ UNCHANGED TimeTrackEnable
    /\ UNCHANGED <<flags, tagList, projects, options, n, commitNote, out,
                   getCalls, fragments, uiError, stdout>>

\* a check that forgets -all
Conflict_TagsOnly(t, a, tg) == t /\ tg # <<>>

\* a check that forgets -tags
Conflict_AllOnly(t, a, tg) == t /\ a

\* status.go 77: the flags that -total-only excludes
Conflict(t, a, tg) == t /\ (a \/ tg # <<>>)

\* a validation that reports the conflict on c.Ui.Output
Validate_ErrorToOutput ==
    /\ pc = "validate"
    /\ IF totalOnly /\ (all \/ tags # <<>>)
       THEN /\ uiOutput' = Append(uiOutput, <<0>>)
            /\ exitCode' = 1
            /\ pc' = "done"
            /\ UNCHANGED uiError
       ELSE /\ pc' = "newIndex"
            /\ UNCHANGED <<uiError, uiOutput, exitCode>>
    /\ UNCHANGED <<flags, TimeTrackEnable, tagList, projects, options, n,
                   commitNote, out, calls, getCalls, fragments, stdout>>

\* status.go 77-80
Validate ==
    /\ pc = "validate"
    /\ IF Conflict(totalOnly, all, tags)
       THEN Fail("-tags and -all options not allowed with -total-only")
       ELSE /\ pc' = "newIndex"
            /\ UNCHANGED <<uiError, exitCode>>
    /\ UNCHANGED <<flags, TimeTrackEnable, tagList, projects, options, n,
                   commitNote, out, calls, getCalls, fragments, uiOutput,
                   stdout>>

\* a NewIndex whose error is not looked at
NewIndex_IgnoreError ==
    /\ pc = "newIndex"
    /\ \E ok \in BOOLEAN :
        /\ calls' = Append(calls, Call("NewIndex", 0, ok))
        /\ pc' = "get"
    /\ UNCHANGED <<flags, TimeTrackEnable, tagList, projects, options, n,
                   commitNote, out, getCalls, fragments, uiError, uiOutput,
                   stdout, exitCode>>

\* status.go 88-92
NewIndex ==
    /\ pc = "newIndex"
    /\ \E ok \in BOOLEAN :
        /\ calls' = Append(calls, Call("NewIndex", 0, ok))
        /\ IF ok
           THEN /\ pc' = "get"
                /\ UNCHANGED <<uiError, exitCode>>
           ELSE Fail("index error")
    /\ UNCHANGED <<flags, TimeTrackEnable, tagList, projects, options, n,
                   commitNote, out, getCalls, fragments, uiOutput, stdout>>

\* status.go 105-110
MakeOptions ==
    [TotalOnly |-> totalOnly, LongDuration |-> longDuration,
     TerminalOff |-> terminalOff, ApplicationOff |-> applicationOff,
     Color |-> color]

\* status.go 94-112: the tag list, index.Get, the options and the entry of
\* the range loop
GetProjects ==
    /\ pc = "get"
    /\ tagList' = BuildTagList(tags)
    /\ getCalls' = Append(getCalls, [tagList |-> tagList', all |-> all])
    /\ \E r \in IndexGet(tagList', all) :
        /\ calls' = Append(calls, Call("Get", 0, r.ok))
        /\ IF r.ok
           THEN /\ projects' = r.projects
                /\ options' = MakeOptions
                /\ IF r.projects = <<>>
                   THEN pc' = "emit" /\ n' = 0
                   ELSE pc' = "metric" /\ n' = 1
                /\ UNCHANGED <<uiError, exitCode>>
           ELSE /\ Fail("get error")
                /\ UNCHANGED <<projects, options, n>>
    /\ UNCHANGED <<flags, TimeTrackEnable, commitNote, out, fragments,
                   uiOutput, stdout>>

\* a metric step that prints what was rendered so far when it fails
MetricProcess_PartialReport ==
    /\ pc = "metric"
    /\ \E ok \in BOOLEAN :
        /\ calls' = Append(calls, Call("Metric", projects[n], ok))
        /\ IF ok
           THEN /\ commitNote' = projects[n]
                /\ pc' = "render"
                /\ UNCHANGED <<uiError, uiOutput, exitCode>>
           ELSE /\ commitNote' = 0
                /\ uiOutput' = Append(uiOutput, out)
                /\ Fail("metric error")
    /\ UNCHANGED <<flags, TimeTrackEnable, tagList, projects, options, n,
                   out, getCalls, fragments, stdout>>

\* status.go 113-116: commitNote, err = metric.Process(true, projPath)
MetricProcess ==
    /\ pc = "metric"
    /\ \E ok \in BOOLEAN :
        /\ calls' = Append(calls, Call("Metric", projects[n], ok))
        /\ IF ok
           THEN /\ commitNote' = projects[n]
                /\ pc' = "render"
                /\ UNCHANGED <<uiError, exitCode>>
           ELSE /\ commitNote' = 0
                /\ Fail("metric error")
    /\ UNCHANGED <<flags, TimeTrackEnable, tagList, projects, options, n,
                   out, getCalls, fragments, uiOutput, stdout>>

\* an accumulator that puts the new fragment first
Accumulate_Prepend(acc, o) == o \o acc

\* status.go 122: out += o
Accumulate(acc, o) == acc \o o

\* a best-effort loop: a render error is reported and the loop goes on
Status_ContinueOnError ==
    /\ pc = "render"
    /\ \E r \in ReportStatus(commitNote, options, projects[n]) :
        /\ calls' = Append(calls, Call("Render", projects[n], r.ok))
        /\ IF r.ok
           THEN /\ out' = Accumulate(out, r.text)
                /\ fragments' =
                       Append(fragments, [proj |-> projects[n], note |-> commitNote,
                                          opts |-> options, text |-> r.text])
                /\ UNCHANGED uiError
           ELSE /\ uiError' = Append(uiError, "render error")
                /\ UNCHANGED <<out, fragments>>
        /\ IF n < Len(projects)
           THEN n' = n + 1 /\ pc' = "metric"
           ELSE n' = n /\ pc' = "emit"
    /\ UNCHANGED <<flags, TimeTrackEnable, tagList, projects, options,
                   commitNote, getCalls, uiOutput, stdout, exitCode>>

\* status.go 117-123: report.Status, out += o and the next round of the loop
Status ==
    /\ pc = "render"
    /\ \E r \in ReportStatus(commitNote, options, projects[n]) :
        /\ calls' = Append(calls, Call("Render", projects[n], r.ok))
        /\ IF r.ok
           THEN /\ out' = Accumulate(out, r.text)
                /\ fragments' =
                       Append(fragments, [proj |-> projects[n], note |-> commitNote,
                                          opts |-> options, text |-> r.text])
                /\ IF n < Len(projects)
                   THEN n' = n + 1 /\ pc' = "metric"
                   ELSE n' = n /\ pc' = "emit"
                /\ UNCHANGED <<uiError, exitCode>>
           ELSE /\ Fail("render error")
                /\ UNCHANGED <<out, fragments, n>>
    /\ UNCHANGED <<flags, TimeTrackEnable, tagList, projects, options,
                   commitNote, getCalls, uiOutput, stdout>>

\* a sink choice that lets -color send the total to the color-aware sink
PlainSink_UnlessColor(t, c) == t /\ ~c

\* status.go 125: the sink of the report is chosen by totalOnly alone
PlainSink(t, c) == t

\* status.go 125-131
Emit ==
    /\ pc = "emit"
    /\ IF PlainSink(totalOnly, color)
       THEN stdout' = Append(stdout, out) /\ UNCHANGED uiOutput
       ELSE uiOutput' = Append(uiOutput, out) /\ UNCHANGED stdout
    /\ exitCode' = 0
    /\ pc' = "done"
    /\ UNCHANGED <<flags, TimeTrackEnable, tagList, projects, options, n,
                   commitNote, out, calls, getCalls, fragments, uiError>>

Next ==
    \/ Parse
    \/ Validate
    \/ NewIndex
    \/ GetProjects
    \/ MetricProcess
    \/ Status
    \/ Emit

Spec == Init /\ [][Next]_vars

(* ------------------- the tag parsing on its own ------------------------- *)

InitTags ==
    /\ pc = "tags"
    /\ color = FALSE
    /\ terminalOff = FALSE
    /\ applicationOff = FALSE
    /\ totalOnly = FALSE
    /\ all = FALSE
    /\ profile = FALSE
    /\ longDuration = FALSE
    /\ tags \in StringsUpTo(MaxTagLen) \cup LongTags
    /\ Entered

\* status.go 94-97 applied to the tag string
ParseTags ==
    /\ pc = "tags"
    /\ tagList' = BuildTagList(tags)
    /\ pc' = "tagsDone"
    /\ UNCHANGED <<flags, TimeTrackEnable, projects, options, n, commitNote,
                   out, exitCode, logs>>

NextTags == ParseTags

SpecTags == InitTags /\ [][NextTags]_vars

(* ------------------------------ properties ------------------------------ *)

\* flag parsing succeeded
PastParsing == calls # <<>> /\ calls[1] = Call("Parse", 0, TRUE)

\* the call op(p) was made and succeeded
Succeeded(op, p) == \E i \in 1..Len(calls) : calls[i] = Call(op, p, TRUE)

\* metric.Process failed on the k-th project of the ProjectSet
MetricFailedAt(k) ==
    \E i \in 1..Len(calls) : calls[i] = Call("Metric", projects[k], FALSE)

\* the calls of the Metric Processor and the Renderer, in the order made
MetricRenderCalls == SelectSeq(calls, LAMBDA c : c.op \in {"Metric", "Render"})

RECURSIVE Concat(_)
Concat(ss) == IF ss = <<>> THEN <<>> ELSE Head(ss) \o Concat(Tail(ss))

\* the texts the Renderer returned, in the order returned
FragmentTexts == [i \in 1..Len(fragments) |-> fragments[i].text]

\* C1: when the metric computation fails on project k of the ProjectSet, the
\* run has ended with exit code 1 and nothing was written to either report
\* sink, whatever was rendered for the projects before k.
C1_NoReportOnMetricFailure ==
    \A k \in 1..Len(projects) :
        MetricFailedAt(k) =>
            /\ stdout = <<>>
            /\ uiOutput = <<>>
            /\ pc = "done"
            /\ exitCode = 1

\* the metric computation failed on project 2 of 3, after a non-empty
\* fragment was accumulated for project 1
C1_Witness ==
    /\ Len(projects) = 3
    /\ MetricFailedAt(2)
    /\ out # <<>>
    /\ exitCode = 1

\* C2: with TotalOnly and (all or a non-empty tag string) the run never
\* opens or queries the Registry and never calls the Metric Processor or the
\* Renderer, and it ends with exit code 1 (after one error message when the
\* flags parsed).
C2_ConflictFailsBeforeResolution ==
    (totalOnly /\ (all \/ Len(tags) > 0)) =>
        /\ \A i \in 1..Len(calls) : calls[i].op = "Parse"
        /\ getCalls = <<>>
        /\ fragments = <<>>
        /\ pc \in {"parse", "validate", "done"}
        /\ pc = "done" => exitCode = 1
        /\ (pc = "done" /\ PastParsing) => Len(uiError) = 1

\* a run with -total-only -all that parsed its flags and was rejected
C2_Witness ==
    /\ totalOnly /\ all
    /\ PastParsing
    /\ pc = "done"
    /\ exitCode = 1
    /\ Len(uiError) = 1

\* C3: a run that succeeds emitted exactly the concatenation of the
\* fragments the Renderer returned, one per project, in ProjectSet order.
C3_ReportIsFragmentsInOrder ==
    exitCode = 0 =>
        /\ Len(fragments) = Len(projects)
        /\ \A i \in 1..Len(fragments) : fragments[i].proj = projects[i]
        /\ stdout \o uiOutput = <<Concat(FragmentTexts)>>

\* a successful run over the ProjectSet <<2, 3, 1>> with three non-empty
\* fragments
C3_Witness ==
    /\ exitCode = 0
    /\ projects = <<2, 3, 1>>
    /\ uiOutput = << <<2, 3, 1>> >>

\* C4: a run that returned has exit code 0 or 1, and 0 exactly when the
\* flags parsed and passed validation, NewIndex and Get succeeded, and
\* metric.Process and report.Status succeeded for every project.
C4_ExitCodeZeroIffAllSucceeded ==
    /\ pc # "done" => exitCode = NoExit
    /\ pc = "done" =>
        /\ exitCode \in {0, 1}
        /\ exitCode = 0 <=>
            /\ PastParsing
            /\ ~(totalOnly /\ (all \/ Len(tags) > 0))
            /\ Succeeded("NewIndex", 0)
            /\ Succeeded("Get", 0)
            /\ \A k \in 1..Len(projects) :
                /\ Succeeded("Metric", projects[k])
                /\ Succeeded("Render", projects[k])

\* a run over three projects that returned 0
C4_Witness ==
    /\ pc = "done"
    /\ exitCode = 0
    /\ Len(projects) = 3

\* C5: past flag parsing a run never writes both an error message and a
\* report text, writes at most one error message, and has written exactly
\* one when it returns 1.
C5_ChannelsNeverMixed ==
    PastParsing =>
        /\ ~(uiError # <<>> /\ (stdout # <<>> \/ uiOutput # <<>>))
        /\ Len(uiError) <= 1
        /\ (pc = "done" /\ exitCode = 1) => Len(uiError) = 1
        /\ (pc = "done" /\ exitCode = 0) => Len(stdout) + Len(uiOutput) = 1

\* a run whose Registry query failed: one error message, no report text
C5_Witness ==
    /\ pc = "done"
    /\ exitCode = 1
    /\ \E i \in 1..Len(calls) : calls[i] = Call("Get", 0, FALSE)
    /\ Len(uiError) = 1
    /\ stdout = <<>> /\ uiOutput = <<>>

\* C6: a successful run wrote the accumulated output once: to the plain
\* sink when TotalOnly is set, whatever Color is, and to the color-aware sink
\* otherwise; the other sink received nothing.
C6_OneSinkByTotalOnly ==
    exitCode = 0 =>
        IF totalOnly
        THEN stdout = <<out>> /\ uiOutput = <<>>
        ELSE uiOutput = <<out>> /\ stdout = <<>>

\* a successful -total-only -color run with a non-empty total
C6_Witness ==
    /\ exitCode = 0
    /\ totalOnly /\ color
    /\ out # <<>>
    /\ stdout = <<out>>

\* C9: a total-only run queries the Registry with the empty filter and
\* all=false only, and when it succeeds its output is the fragment of the
\* one project the Registry resolved.
C9_TotalOnlyQueriesSingleProject ==
    totalOnly =>
        /\ \A i \in 1..Len(getCalls) :
              getCalls[i] = [tagList |-> <<>>, all |-> FALSE]
        /\ exitCode = 0 =>
              /\ Len(fragments) = 1
              /\ projects = <<fragments[1].proj>>
              /\ stdout = <<fragments[1].text>>

\* a successful total-only run: one query, one project, its fragment emitted
C9_Witness ==
    /\ totalOnly
    /\ exitCode = 0
    /\ Len(getCalls) = 1
    /\ Len(projects) = 1
    /\ stdout = << <<projects[1]>> >>

\* C10: the Metric and Render calls of a run are a prefix of Metric(p1),
\* Render(p1), Metric(p2), Render(p2), ... in ProjectSet order; only the last
\* call made can have failed; no project is processed twice; and the Renderer
\* is given the note the Metric Processor computed for the same project.
C10_FailFastSequence ==
    LET mr == MetricRenderCalls IN
    /\ Len(mr) <= 2 * Len(projects)
    /\ \A i \in 1..Len(mr) :
        /\ mr[i].op = IF i % 2 = 1 THEN "Metric" ELSE "Render"
        /\ mr[i].proj = projects[(i + 1) \div 2]
        /\ i < Len(mr) => mr[i].ok
    /\ \A i, j \in 1..Len(mr) :
        (mr[i].op = mr[j].op /\ mr[i].proj = mr[j].proj) => i = j
    /\ \A i \in 1..Len(fragments) : fragments[i].note = fragments[i].proj

\* three projects, the Renderer fails on the second: four calls were made
\* and the run returned 1
C10_Witness ==
    /\ Len(projects) = 3
    /\ Len(MetricRenderCalls) = 4
    /\ ~MetricRenderCalls[4].ok
    /\ pc = "done"
    /\ exitCode = 1

(* ----------------------- properties of the tag list --------------------- *)

\* the positions that bound the comma-separated segments of s
Separators(s) == {0, Len(s) + 1} \cup {i \in 1..Len(s) : s[i] = 44}

\* the code points with the Unicode property White_Space
WhiteSpace ==
    (9..13) \cup {32, 133, 160, 5760} \cup (8192..8202) \cup
    {8232, 8233, 8239, 8287, 12288}

\* the k-th smallest of them
KthSeparator(s, k) ==
    CHOOSE x \in Separators(s) :
        Cardinality({y \in Separators(s) : y < x}) = k - 1

SegmentCount(s) == Cardinality(Separators(s)) - 1

\* the positions of segment k that hold no white space
Inked(s, k) ==
    {i \in (KthSeparator(s, k) + 1)..(KthSeparator(s, k + 1) - 1) :
        s[i] \notin WhiteSpace}

\* segment k from its first to its last character that is no white space
TrimmedSegment(s, k) ==
    LET ink == Inked(s, k) IN
    IF ink = {} THEN <<>>
    ELSE SubSeq(s, CHOOSE i \in ink : \A j \in ink : i <= j,
                   CHOOSE i \in ink : \A j \in ink : i >= j)

\* C7: the tag list of a non-empty tag string is the sequence of its
\* comma-separated segments, each trimmed, in order; the empty tag string
\* gives the empty list.
C7_TagListIsTrimmedSegments ==
    pc = "tagsDone" =>
        tagList = IF tags = <<>> THEN <<>>
                  ELSE [k \in 1..SegmentCount(tags) |-> TrimmedSegment(tags, k)]

\* "a, b ,c" was parsed to ["a", "b", "c"]
C7_Witness ==
    /\ pc = "tagsDone"
    /\ tags = <<97, 44, 32, 98, 32, 44, 99>>
    /\ tagList = << <<97>>, <<98>>, <<99>> >>

\* C8 as stated: no entry of the tag list is the empty string.
C8_NoEmptyEntry ==
    pc = "tagsDone" => \A i \in 1..Len(tagList) : tagList[i] # <<>>

\* C8 amended: every entry of the tag list is trimmed and holds no comma,
\* and entry k is the empty string exactly when segment k of the tag string
\* is empty or all white space; only the empty tag string gives no entry.
C8_EntriesTrimmedEmptyIffBlankSegment ==
    pc = "tagsDone" =>
        /\ Len(tagList) = IF tags = <<>> THEN 0 ELSE SegmentCount(tags)
        /\ \A k \in 1..Len(tagList) :
            LET e == tagList[k] IN
            /\ e = <<>> <=> Inked(tags, k) = {}
            /\ e # <<>> => e[1] \notin WhiteSpace /\ e[Len(e)] \notin WhiteSpace
            /\ \A j \in 1..Len(e) : e[j] # 44

\* "a,,b" was parsed to ["a", "", "b"]
C8_Witness ==
    /\ pc = "tagsDone"
    /\ tags = <<97, 44, 44, 98>>
    /\ tagList = << <<97>>, <<>>, <<98>> >>

====
